---- MODULE Spec2Model ----
(***************************************************************************)
(* Renaming (mangle / rename) and lambda lifting (lift1 / lift) of the     *)
(* Scheme middle-end in src/rs/src/lang.rs, as operators over expression   *)
(* trees, driven by a small state machine: a parsed program is renamed,    *)
(* and either the parsed or the renamed program is lifted one top-level    *)
(* expression at a time against one compiler state.                        *)
(***************************************************************************)
EXTENDS Integers, Sequences, FiniteSets, TLC

VARIABLES prog, renamed, src, out, s, pc

vars == <<prog, renamed, src, out, s, pc>>

(***************************************************************************)
(* Bounds of the model.                                                    *)
(***************************************************************************)
\* Every program of at most MaxNodes expression nodes is an input.
MaxNodes == 4
\* Every let form of at most MaxLets bindings in all, nested or side by side,
\* each binding a plain value or a function literal, is an input.
MaxLets == 2
\* Programs of at most MaxDefs top-level function definitions are inputs.
MaxDefs == 2
\* Programs of at most MaxLits top-level string / symbol literals are inputs.
MaxLits == 4

Names == {"x", "f"}
Texts == {"a", "b"}

(***************************************************************************)
(* core::Expr and core::Code, as records tagged with the variant name.     *)
(* Vec<T> is a sequence, Option<T> a sequence of length at most one.       *)
(***************************************************************************)
Number(n) == [tag |-> "Number", n |-> n]

Identifier(i) == [tag |-> "Identifier", name |-> i]

Str(v) == [tag |-> "Str", v |-> v]

Symbol(v) == [tag |-> "Symbol", v |-> v]

List(list) == [tag |-> "List", list |-> list]

Cond(pred, then, alt) == [tag |-> "Cond", pred |-> pred, then |-> then, alt |-> alt]

Let(bindings, body) == [tag |-> "Let", bindings |-> bindings, body |-> body]

Code(name, formals, free, body) ==
    [name |-> name, formals |-> formals, free |-> free, body |-> body]

Lambda(code) == [tag |-> "Lambda", code |-> code]

\* compiler::state::State as lift1 uses it: three maps, empty by Default.
State(functions, strings, symbols) ==
    [functions |-> functions, strings |-> strings, symbols |-> symbols]

EmptyMap == [k \in {} |-> 0]

DefaultState == State(EmptyMap, EmptyMap, EmptyMap)

\* HashMap::insert: the key maps to v afterwards, whatever it mapped to before.
Insert(m, k, v) == [j \in DOMAIN m \cup {k} |-> IF j = k THEN v ELSE m[j]]

(***************************************************************************)
(* mangle                                                                  *)
(***************************************************************************)
\* format!("{}.{}", i, n)
Format(i, n) == i \o "." \o ToString(n)

\* Bump without and_modify: every bound name is at generation 0.
BumpToZero(env, name) == Insert(env, name, 0)

\* env.entry(name).and_modify(|e| *e += 1).or_insert(0)
Bump(env, name) ==
    Insert(env, name, IF name \in DOMAIN env THEN env[name] + 1 ELSE 0)

\* The loop over bindings that bumps every bound name but `skip` (a sequence
\* of at most one name: empty for `all`, the binding's own name for `rest`).
RECURSIVE Promote(_, _, _, _)
Promote(env, bindings, skip, k) ==
    IF k > Len(bindings) THEN env
    ELSE LET n == bindings[k][1]
         IN  Promote(IF skip = <<n>> THEN env ELSE Bump(env, n), bindings, skip, k + 1)

\* The Identifier arm with the None case formatted too.
MangleIdentifierAlways(env, i) ==
    Identifier(Format(i, IF i \in DOMAIN env THEN env[i] ELSE 0))

\* The Identifier arm: match env.get(i) { Some(n) => ..., None => ... }
MangleIdentifier(env, i) ==
    IF i \in DOMAIN env THEN Identifier(Format(i, env[i])) ELSE Identifier(i)

\* ValueEnv with every binding value seeing the complete environment.
ValueEnvAll(all, rest, value) == all

\* ValueEnv with no binding value seeing its own binding.
ValueEnvRest(all, rest, value) == rest

\* The environment a binding's value is mangled with: match value { Let {..}
\* => all, Lambda(_) => all, _ => rest }
ValueEnv(all, rest, value) ==
    IF value.tag \in {"Let", "Lambda"} THEN all ELSE rest

RECURSIVE Mangle(_, _)
Mangle(env, e) ==
    CASE e.tag = "Identifier" -> MangleIdentifier(env, e.name)
      [] e.tag = "Let" ->
            LET all == Promote(env, e.bindings, <<>>, 1)
                Binding(b) ==
                    LET name  == b[1]
                        value == b[2]
                        rest  == Promote(env, e.bindings, <<name>>, 1)
                        v     == Mangle(ValueEnv(all, rest, value), value)
                    IN  <<Format(name, all[name]), v>>
            IN  Let([i \in 1..Len(e.bindings) |-> Binding(e.bindings[i])],
                    [i \in 1..Len(e.body) |-> Mangle(all, e.body[i])])
      [] e.tag = "List" ->
            List([i \in 1..Len(e.list) |-> Mangle(env, e.list[i])])
      [] e.tag = "Cond" ->
            Cond(Mangle(env, e.pred), Mangle(env, e.then),
                 [i \in 1..Len(e.alt) |-> Mangle(env, e.alt[i])])
      [] e.tag = "Lambda" ->
            Lambda(Code(e.code.name, e.code.formals, e.code.free,
                        [i \in 1..Len(e.code.body) |-> Mangle(env, e.code.body[i])]))
      [] OTHER -> e

rename(p) == [i \in 1..Len(p) |-> Mangle(EmptyMap, p[i])]

(***************************************************************************)
(* lift1: the result is the state after the call, the rewritten            *)
(* expression, and ok = FALSE when unimplemented!("inline λ") was reached  *)
(* (the state is then the one at the panic and e is not a result).         *)
(***************************************************************************)
Result(st, e, ok) == [s |-> st, e |-> e, ok |-> ok]

\* Intern without the contains_key test.
InternAlways(pool, v) == Insert(pool, v, Cardinality(DOMAIN pool))

\* if !pool.contains_key(v) { pool.insert(v, pool.len()); }
Intern(pool, v) ==
    IF v \in DOMAIN pool THEN pool ELSE Insert(pool, v, Cardinality(DOMAIN pool))

\* FunctionRecord with the literal's own name kept.
FunctionRecordUnnamed(name, code, body) ==
    Code(code.name, code.formals, code.free, body)

\* Code { name: Some(name), formals, free, body: lift(s, body) }
FunctionRecord(name, code, body) ==
    Code(<<name>>, code.formals, code.free, body)

\* InlineLambda with the literal passed through like any other value.
InlineLambdaKept(st, e) == Result(st, e, TRUE)

\* The Lambda arm: unimplemented!("inline λ")
InlineLambda(st, e) == Result(st, e, FALSE)

RECURSIVE Lift1(_, _)
RECURSIVE LiftAll(_, _, _, _)
RECURSIVE LiftBindings(_, _, _, _)

\* prog.iter().map(|e| lift1(s, e)).collect(), from element k on; acc holds
\* the results so far.  In a failed result e is the sequence lifted so far.
LiftAll(st, es, k, acc) ==
    IF k > Len(es) THEN Result(st, acc, TRUE)
    ELSE LET r == Lift1(st, es[k])
         IN  IF r.ok THEN LiftAll(r.s, es, k + 1, Append(acc, r.e))
             ELSE Result(r.s, acc, FALSE)

\* The `for (name, expr) in bindings` loop of the Let arm; rest holds the
\* bindings kept so far.
LiftBindings(st, bindings, k, rest) ==
    IF k > Len(bindings) THEN Result(st, rest, TRUE)
    ELSE LET name == bindings[k][1]
             expr == bindings[k][2]
         IN  IF expr.tag = "Lambda"
             THEN LET b == LiftAll(st, expr.code.body, 1, <<>>)
                      code == FunctionRecord(name, expr.code, b.e)
                  IN  IF b.ok
                      THEN LiftBindings(
                              State(Insert(b.s.functions, name, code),
                                    b.s.strings, b.s.symbols),
                              bindings, k + 1, rest)
                      ELSE Result(b.s, rest, FALSE)
             ELSE LET r == Lift1(st, expr)
                  IN  IF r.ok
                      THEN LiftBindings(r.s, bindings, k + 1, Append(rest, <<name, r.e>>))
                      ELSE Result(r.s, rest, FALSE)

Lift1(st, e) ==
    CASE e.tag = "Str" ->
            Result(State(st.functions, Intern(st.strings, e.v), st.symbols), e, TRUE)
      [] e.tag = "Symbol" ->
            Result(State(st.functions, st.strings, Intern(st.symbols, e.v)), e, TRUE)
      [] e.tag = "Let" ->
            LET bs == LiftBindings(st, e.bindings, 1, <<>>)
                bd == LiftAll(bs.s, e.body, 1, <<>>)
            IN  IF ~bs.ok THEN Result(bs.s, e, FALSE)
                ELSE IF ~bd.ok THEN Result(bd.s, e, FALSE)
                ELSE Result(bd.s, Let(bs.e, bd.e), TRUE)
      [] e.tag = "List" ->
            LET r == LiftAll(st, e.list, 1, <<>>)
            IN  Result(r.s, List(r.e), r.ok)
      [] e.tag = "Cond" ->
            LET r == LiftAll(st, <<e.pred, e.then>> \o e.alt, 1, <<>>)
            IN  IF r.ok
                THEN Result(r.s, Cond(r.e[1], r.e[2], SubSeq(r.e, 3, Len(r.e))), TRUE)
                ELSE Result(r.s, e, FALSE)
      [] e.tag = "Lambda" -> InlineLambda(st, e)
      [] OTHER -> Result(st, e, TRUE)

(***************************************************************************)
(* Inputs: the trees the parser can hand over.                             *)
(***************************************************************************)
Atoms == {Number(1), Identifier("x"), Str("a")}

FormalLists == {<<>>, <<"x">>}

\* S \cup T.  Counting S first puts it in TLC's sorted form, which keeps the
\* union of two large sets from taking quadratic time.
Cup(S, T) == IF Cardinality(S) = 0 THEN T ELSE S \cup T

RECURSIVE SeqsOfSize(_, _, _)
RECURSIVE SeqsFrom(_, _, _, _)
RECURSIVE BodiesOfSize(_, _, _)
RECURSIVE LetsOfSize(_, _, _)
RECURSIVE ExprTable(_, _)
RECURSIVE ProgramsUpTo(_, _)

\* The sequences of k expressions with n nodes in all; tab[i] is the set of
\* the expressions of exactly i nodes.
SeqsOfSize(tab, k, n) ==
    IF k = 0 THEN (IF n = 0 THEN {<<>>} ELSE {})
    ELSE SeqsFrom(tab, k, n, 1)

\* Those whose first expression has at least i nodes.
SeqsFrom(tab, k, n, i) ==
    IF i > n - (k - 1) THEN {}
    ELSE Cup(SeqsFrom(tab, k, n, i + 1),
             {<<h>> \o t : h \in tab[i], t \in SeqsOfSize(tab, k - 1, n - i)})

\* The sequences of at least k expressions (k > 0) with n nodes in all.
BodiesOfSize(tab, k, n) ==
    IF k > n THEN {}
    ELSE Cup(BodiesOfSize(tab, k + 1, n), SeqsOfSize(tab, k, n))

\* The let forms of n nodes with at least k bindings and a non-empty body.
LetsOfSize(tab, k, n) ==
    IF k > n - 2 THEN {}
    ELSE Cup(LetsOfSize(tab, k + 1, n),
             {Let([i \in 1..k |-> <<nq[1][i], nq[2][i]>>],
                  SubSeq(nq[2], k + 1, Len(nq[2]))) :
                 nq \in [1..k -> Names] \X BodiesOfSize(tab, k + 1, n - 1)})

\* The expressions of exactly n nodes (n > 1), from those of fewer nodes.
ExprsOfSize(tab, n) ==
    Cup(Cup(Cup({List(l) : l \in BodiesOfSize(tab, 1, n - 1)},
                {Cond(q[1], q[2], SubSeq(q, 3, Len(q))) :
                    q \in Cup(SeqsOfSize(tab, 2, n - 1), SeqsOfSize(tab, 3, n - 1))}),
            LetsOfSize(tab, 0, n)),
        {Lambda(Code(<<>>, fs, <<>>, b)) :
            fs \in FormalLists, b \in BodiesOfSize(tab, 1, n - 1)})

\* tab[i] for i in 1..max, built from one node up.
ExprTable(tab, max) ==
    IF Len(tab) >= max THEN tab
    ELSE ExprTable(Append(tab, IF tab = <<>> THEN Atoms
                                ELSE ExprsOfSize(tab, Len(tab) + 1)), max)

\* The non-empty sequences of expressions with at most n nodes in all.
ProgramsUpTo(tab, n) ==
    IF n = 0 THEN {}
    ELSE Cup(BodiesOfSize(tab, 1, n), ProgramsUpTo(tab, n - 1))

\* Every program (a non-empty sequence of top-level expressions) of at most
\* MaxNodes nodes.
SmallPrograms == ProgramsUpTo(ExprTable(<<>>, MaxNodes), MaxNodes)

\* The values the bindings of the let forms below take: a plain value or a
\* function literal whose body names a bound name.
ScopeAtoms == {Number(1), Identifier("x"), Identifier("f")}

ScopeValues ==
    ScopeAtoms
    \cup {Lambda(Code(<<>>, fs, <<>>, <<Identifier(m)>>)) : fs \in FormalLists, m \in Names}

RECURSIVE LetForms(_)
RECURSIVE LetFormsFrom(_, _)

\* The forms with exactly b bindings in all: an atom, or a let whose body
\* is such a form.
LetForms(b) == IF b = 0 THEN ScopeAtoms ELSE LetFormsFrom(b, 1)

\* Those whose outermost let has at least k bindings.
LetFormsFrom(b, k) ==
    IF k > b THEN {}
    ELSE Cup(LetFormsFrom(b, k + 1),
             {Let(bf[1], <<bf[2]>>) :
                 bf \in [1..k -> Names \X ScopeValues] \X LetForms(b - k)})

RECURSIVE LetProgramsUpTo(_)
LetProgramsUpTo(b) ==
    IF b = 0 THEN {}
    ELSE Cup(LetProgramsUpTo(b - 1), {<<e>> : e \in LetForms(b)})

LetPrograms == LetProgramsUpTo(MaxLets)

\* (let ((name (lambda formals body))) call): a top-level function definition.
Definitions ==
    UNION {{Let(<<<<n, Lambda(Code(<<>>, fs, <<>>, <<b>>))>>>>, <<c>>) :
               fs \in FormalLists, b \in {Number(1), Identifier("x")},
               c \in {Number(1), Identifier(n)}} :
           n \in Names}

DefPrograms == UNION {[1..k -> Definitions] : k \in 1..MaxDefs}

Literals == {Str(v) : v \in Texts} \cup {Symbol(v) : v \in Texts}

LitPrograms == UNION {[1..k -> Literals] : k \in 1..MaxLits}

Programs == Cup(Cup(SmallPrograms, LetPrograms), DefPrograms \cup LitPrograms)

(***************************************************************************)
(* The pipeline.                                                           *)
(***************************************************************************)
Init ==
    /\ prog \in Programs
    /\ renamed = <<>>
    /\ src = <<>>
    /\ out = <<>>
    /\ s = DefaultState
    /\ pc = "parsed"

\* rename(prog)
Rename ==
    /\ pc = "parsed"
    /\ renamed' = rename(prog)
    /\ pc' = "renamed"
    /\ UNCHANGED <<prog, src, out, s>>

\* The program lift is working on: the parser's output when lift is called
\* on it directly, the renamed program in the pipeline.
LiftArg ==
    CASE pc = "parsed" -> prog
      [] pc = "renamed" -> renamed
      [] OTHER -> src

\* One iteration of lift's map: lift1 on the next top-level expression.
LiftStep ==
    /\ pc \in {"parsed", "renamed", "lifting"}
    /\ LET k == Len(out) + 1
           r == Lift1(s, LiftArg[k])
       IN  /\ src' = LiftArg
           /\ s' = r.s
           /\ IF r.ok
              THEN /\ out' = Append(out, r.e)
                   /\ pc' = IF k = Len(LiftArg) THEN "lifted" ELSE "lifting"
              ELSE /\ out' = out
                   /\ pc' = "panicked"
    /\ UNCHANGED <<prog, renamed>>

Next == Rename \/ LiftStep

Spec == Init /\ [][Next]_vars

(***************************************************************************)
(* Positions in a program.  A position is the index of a top-level         *)
(* expression followed by child indices; the children of a node are taken  *)
(* in the order mangle and lift1 visit them.                               *)
(***************************************************************************)
Kids(e) ==
    CASE e.tag = "List" -> e.list
      [] e.tag = "Cond" -> <<e.pred, e.then>> \o e.alt
      [] e.tag = "Let" -> [i \in 1..Len(e.bindings) |-> e.bindings[i][2]] \o e.body
      [] e.tag = "Lambda" -> e.code.body
      [] OTHER -> <<>>

RECURSIVE Paths(_)
Paths(e) ==
    {<<>>} \cup UNION {{<<i>> \o q : q \in Paths(Kids(e)[i])} : i \in 1..Len(Kids(e))}

RECURSIVE At(_, _)
At(e, q) == IF q = <<>> THEN e ELSE At(Kids(e)[q[1]], Tail(q))

Positions(p) == UNION {{<<t>> \o q : q \in Paths(p[t])} : t \in 1..Len(p)}

Node(p, a) == At(p[a[1]], Tail(a))

LetPositions(p) == {a \in Positions(p) : Node(p, a).tag = "Let"}

BindingNames(l) == {l.bindings[i][1] : i \in 1..Len(l.bindings)}

\* Position c lies strictly below position a.
Below(a, c) == Len(a) < Len(c) /\ SubSeq(c, 1, Len(a)) = a

\* c lies in the value of binding i of the let at a / in the body of that let.
InValue(p, a, i, c) == Below(a, c) /\ c[Len(a) + 1] = i

InBody(p, a, c) == Below(a, c) /\ c[Len(a) + 1] > Len(Node(p, a).bindings)

\* A let strictly between a and c binds n.
Rebound(p, a, c, n) ==
    \E k \in (Len(a) + 1)..(Len(c) - 1) :
        LET m == Node(p, SubSeq(c, 1, k))
        IN  m.tag = "Let" /\ n \in BindingNames(m)

\* The occurrences of the identifier n below a that satisfy In and that no
\* let in between rebinds.
Uses(p, a, n, In(_)) ==
    {c \in {a \o q : q \in Paths(Node(p, a))} :
        In(c) /\ Node(p, c) = Identifier(n) /\ ~Rebound(p, a, c, n)}

\* No let of the program binds a name twice.
WellFormed(p) ==
    \A a \in LetPositions(p) :
        \A i, j \in 1..Len(Node(p, a).bindings) :
            Node(p, a).bindings[i][1] = Node(p, a).bindings[j][1] => i = j

\* The generations a name of p can reach: one per binding at most.
Generations(p) == 0..Cardinality(Positions(p))

\* The environment mangle is handed at position q of e, when e itself is
\* mangled with env.
RECURSIVE EnvAt(_, _, _)
EnvAt(env, e, q) ==
    IF q = <<>> THEN env
    ELSE LET i == q[1]
             down == IF e.tag # "Let" THEN env
                     ELSE IF i <= Len(e.bindings)
                             /\ e.bindings[i][2].tag \notin {"Let", "Lambda"}
                          THEN Promote(env, e.bindings, <<e.bindings[i][1]>>, 1)
                          ELSE Promote(env, e.bindings, <<>>, 1)
         IN  EnvAt(down, Kids(e)[i], Tail(q))

IncomingEnv(p, a) == EnvAt(EmptyMap, p[a[1]], Tail(a))

\* The expression lift1 returns for e (it does not depend on the state).
Lifted(e) == Lift1(DefaultState, e).e

\* The top-level expression whose lift1 call the state has just seen return,
\* and what it returned.
LastIn == src[Len(out)]

LastOut == out[Len(out)]

Returned == pc \in {"lifting", "lifted"} /\ Len(out) > 0

\* lift is working on the output of rename.
InPipeline == pc = "renamed" \/ (pc = "lifting" /\ src = renamed)

\* This step is a lift1 call on a top-level expression.
LiftTaken == pc \in {"parsed", "renamed", "lifting"} /\ pc' \in {"lifting", "lifted", "panicked"}

NextExpr == LiftArg[Len(out) + 1]

(***************************************************************************)
(* Renaming.                                                               *)
(***************************************************************************)
\* The binding occurrences of p: a let position and a binding index.
BindingOccurrences(p) ==
    UNION {{<<a, i>> : i \in 1..Len(Node(p, a).bindings)} : a \in LetPositions(p)}

BoundName(p, o) == Node(p, o[1]).bindings[o[2]][1]

\* C3: in the output of rename no two distinct let-binding occurrences
\* carry the same mangled name.  Stated for the programs in which no let
\* binds a name twice.
C3_UniqueBindingNames ==
    (pc = "renamed" /\ WellFormed(prog)) =>
        \A o1, o2 \in BindingOccurrences(renamed) :
            o1 # o2 => BoundName(renamed, o1) # BoundName(renamed, o2)

\* C6: a let that binds n inside the body of a let that binds n gets a
\* strictly greater generation for n, and every occurrence of n in the
\* inner body that no deeper let rebinds carries the inner binding's name.
C6_ShadowResolution ==
    pc = "renamed" =>
        \A a, b \in LetPositions(prog) :
            InBody(prog, a, b) =>
                \A i \in 1..Len(Node(prog, a).bindings), j \in 1..Len(Node(prog, b).bindings) :
                    LET n == Node(prog, a).bindings[i][1]
                        outer == Node(renamed, a).bindings[i][1]
                        inner == Node(renamed, b).bindings[j][1]
                    IN  Node(prog, b).bindings[j][1] = n =>
                            /\ \E g, h \in Generations(prog) :
                                  outer = Format(n, g) /\ inner = Format(n, h) /\ h > g
                            /\ \A c \in Uses(prog, b, n, LAMBDA c : InBody(prog, b, c)) :
                                  Node(renamed, c) = Identifier(inner)

\* A let binding n is renamed inside the body of a let binding n, and the
\* inner body uses n.
C6_Witness ==
    /\ pc = "renamed"
    /\ \E a, b \in LetPositions(prog) :
          /\ InBody(prog, a, b)
          /\ \E n \in BindingNames(Node(prog, a)) \cap BindingNames(Node(prog, b)) :
                Uses(prog, b, n, LAMBDA c : InBody(prog, b, c)) # {}

\* C7: in a binding (n, v) whose value is neither a let nor a function
\* literal, every occurrence of n in v that v does not rebind is renamed
\* with the generation n has in the environment the let was entered with
\* (unchanged if it has none), which is not the binding's new name, and
\* every occurrence of n in the let's body carries the new name.
C7_SelfReferenceBoundary ==
    pc = "renamed" =>
        \A a \in LetPositions(prog) :
            \A i \in 1..Len(Node(prog, a).bindings) :
                LET n == Node(prog, a).bindings[i][1]
                    v == Node(prog, a).bindings[i][2]
                    env == IncomingEnv(prog, a)
                    old == IF n \in DOMAIN env THEN Format(n, env[n]) ELSE n
                    new == Node(renamed, a).bindings[i][1]
                IN  v.tag \notin {"Let", "Lambda"} =>
                        /\ new # old
                        /\ \A c \in Uses(prog, a, n, LAMBDA c : InValue(prog, a, i, c)) :
                              Node(renamed, c) = Identifier(old)
                        /\ \A c \in Uses(prog, a, n, LAMBDA c : InBody(prog, a, c)) :
                              Node(renamed, c) = Identifier(new)

\* A plain value names its own binding, which an enclosing let binds too,
\* and the body names it as well.
C7_Witness ==
    /\ pc = "renamed"
    /\ \E a \in LetPositions(prog) :
          \E i \in 1..Len(Node(prog, a).bindings) :
              LET n == Node(prog, a).bindings[i][1]
              IN  /\ Node(prog, a).bindings[i][2].tag \notin {"Let", "Lambda"}
                  /\ n \in DOMAIN IncomingEnv(prog, a)
                  /\ Uses(prog, a, n, LAMBDA c : InValue(prog, a, i, c)) # {}
                  /\ Uses(prog, a, n, LAMBDA c : InBody(prog, a, c)) # {}

\* C8: inside a binding value that is a function literal, every identifier
\* naming a name the same let binds (itself or a sibling, earlier or later)
\* that no let in between rebinds carries the name that binding receives,
\* and so does every such identifier in the let's body.
C8_LetrecVisibility ==
    pc = "renamed" =>
        \A a \in LetPositions(prog) :
            \A i, j \in 1..Len(Node(prog, a).bindings) :
                LET m == Node(prog, a).bindings[j][1]
                    new == Node(renamed, a).bindings[j][1]
                IN  Node(prog, a).bindings[i][2].tag = "Lambda" =>
                        /\ \E g \in Generations(prog) : new = Format(m, g)
                        /\ \A c \in Uses(prog, a, m, LAMBDA c : InValue(prog, a, i, c)) :
                              Node(renamed, c) = Identifier(new)
                        /\ \A c \in Uses(prog, a, m, LAMBDA c : InBody(prog, a, c)) :
                              Node(renamed, c) = Identifier(new)

\* A function literal names a sibling bound later in the same let, and the
\* let's body names that sibling too.
C8_Witness ==
    /\ pc = "renamed"
    /\ \E a \in LetPositions(prog) :
          \E i, j \in 1..Len(Node(prog, a).bindings) :
              LET m == Node(prog, a).bindings[j][1]
              IN  /\ i < j
                  /\ Node(prog, a).bindings[i][2].tag = "Lambda"
                  /\ Uses(prog, a, m, LAMBDA c : InValue(prog, a, i, c)) # {}
                  /\ Uses(prog, a, m, LAMBDA c : InBody(prog, a, c)) # {}

\* C10: rename leaves the formals and free lists of every function literal
\* as they are, and every identifier in its body that names one of its
\* formals, and that no let inside the body rebinds, keeps that name.
C10_FormalsPreserved ==
    pc = "renamed" =>
        \A a \in Positions(prog) :
            Node(prog, a).tag = "Lambda" =>
                /\ Node(renamed, a).tag = "Lambda"
                /\ Node(renamed, a).code.formals = Node(prog, a).code.formals
                /\ Node(renamed, a).code.free = Node(prog, a).code.free
                /\ \A k \in 1..Len(Node(prog, a).code.formals) :
                      \A c \in Uses(prog, a, Node(prog, a).code.formals[k],
                                    LAMBDA c : Below(a, c)) :
                          Node(renamed, c) = Node(prog, c)

(***************************************************************************)
(* Lifting.                                                                *)
(***************************************************************************)
\* C1: once a name is in the function table its entry is never removed and
\* never reassigned to another record.  Stated for the pipeline (lift on
\* the output of rename) on programs in which no let binds a name twice.
C1_FunctionTableWriteOnce ==
    [][(InPipeline /\ WellFormed(prog)) =>
          \A n \in DOMAIN s.functions :
              n \in DOMAIN s'.functions /\ s'.functions[n] = s.functions[n]]_vars

\* The nodes of e in the order lift1 visits them.
RECURSIVE Visit(_)
RECURSIVE VisitAll(_, _)
Visit(e) == <<e>> \o VisitAll(Kids(e), 1)

VisitAll(es, k) == IF k > Len(es) THEN <<>> ELSE Visit(es[k]) \o VisitAll(es, k + 1)

\* The values of the literals of one kind that the returned lift1 calls
\* have met, in traversal order.
Seen(tag) ==
    LET nodes == VisitAll(SubSeq(src, 1, Len(out)), 1)
        lits == SelectSeq(nodes, LAMBDA e : e.tag = tag)
    IN  [i \in 1..Len(lits) |-> lits[i].v]

\* The pool that gives every value of seq the rank of its first occurrence.
FirstSeen(seq) ==
    [v \in {seq[i] : i \in 1..Len(seq)} |->
        LET first == CHOOSE i \in 1..Len(seq) :
                        seq[i] = v /\ \A j \in 1..(i - 1) : seq[j] # v
        IN  Cardinality({seq[j] : j \in 1..(first - 1)})]

Dense(pool) ==
    /\ \A v, w \in DOMAIN pool : pool[v] = pool[w] => v = w
    /\ {pool[v] : v \in DOMAIN pool} = 0..(Cardinality(DOMAIN pool) - 1)

\* C2: each pool is injective onto 0..N-1, N the number of distinct values
\* met, and gives each value the rank of its first occurrence in traversal
\* order among the values of its own kind alone: meeting a value again, or
\* a literal of the other kind, changes nothing.
C2_PoolInvariant ==
    /\ Dense(s.strings)
    /\ Dense(s.symbols)
    /\ pc # "panicked" =>
          /\ s.strings = FirstSeen(Seen("Str"))
          /\ s.symbols = FirstSeen(Seen("Symbol"))

\* A program of literals alone has been lifted: two distinct strings and a
\* symbol, one of them met twice.
C2_Witness ==
    /\ pc = "lifted"
    /\ \A k \in 1..Len(src) : src[k].tag \in {"Str", "Symbol"}
    /\ Cardinality(DOMAIN s.strings) = 2
    /\ Cardinality(DOMAIN s.symbols) >= 1
    /\ Len(out) > Cardinality(DOMAIN s.strings) + Cardinality(DOMAIN s.symbols)

\* The names e binds to function literals, in any let of e.
FunctionNames(e) ==
    UNION {{At(e, q).bindings[i][1] :
               i \in {i \in 1..Len(At(e, q).bindings) : At(e, q).bindings[i][2].tag = "Lambda"}} :
           q \in {q \in Paths(e) : At(e, q).tag = "Let"}}

\* The names bound to function literals that lift1 inserts after it has
\* inserted binding i of the let l: later bindings of l, the lets nested in
\* them, and the lets of the body.
LaterFunctionNames(l, i) ==
    UNION {FunctionNames(l.bindings[j][2])
              \cup (IF l.bindings[j][2].tag = "Lambda" THEN {l.bindings[j][1]} ELSE {}) :
           j \in (i + 1)..Len(l.bindings)}
    \cup UNION {FunctionNames(l.body[k]) : k \in 1..Len(l.body)}

\* The record the claim expects for the binding (name, value), value a
\* function literal.
ExpectedRecord(name, value) ==
    Code(<<name>>, value.code.formals, value.code.free,
         [k \in 1..Len(value.code.body) |-> Lifted(value.code.body[k])])

\* The let lift1 returns for l has the bindings of l that are no function
\* literals, in order, each value lifted, and the body of l lifted.
Partitioned(l, r) ==
    LET kept == SelectSeq(l.bindings, LAMBDA b : b[2].tag # "Lambda")
    IN  r = Let([i \in 1..Len(kept) |-> <<kept[i][1], Lifted(kept[i][2])>>],
                [k \in 1..Len(l.body) |-> Lifted(l.body[k])])

LambdaBindings(l) == {i \in 1..Len(l.bindings) : l.bindings[i][2].tag = "Lambda"}

\* C4 as claimed: when lift1 returns from a let, the result is the let
\* without its function-literal bindings, and the function table holds
\* under each such binding's name the record built from that binding.
\* Stated for the lets in which no name is bound twice.
C4_LiftPartitionAsClaimed ==
    (Returned /\ LastIn.tag = "Let" /\ WellFormed(<<LastIn>>)) =>
        /\ Partitioned(LastIn, LastOut)
        /\ \A i \in LambdaBindings(LastIn) :
              LET name == LastIn.bindings[i][1]
              IN  /\ name \in DOMAIN s.functions
                  /\ s.functions[name] = ExpectedRecord(name, LastIn.bindings[i][2])

\* C4 as amended: the function table holds under the binding's name a
\* record of that name, and it is the record built from this binding unless
\* a function literal bound to the same name is lifted later in the call.
C4_LiftPartition ==
    (Returned /\ LastIn.tag = "Let") =>
        /\ Partitioned(LastIn, LastOut)
        /\ \A i \in LambdaBindings(LastIn) :
              LET name == LastIn.bindings[i][1]
              IN  /\ name \in DOMAIN s.functions
                  /\ s.functions[name].name = <<name>>
                  /\ name \notin LaterFunctionNames(LastIn, i) =>
                        s.functions[name] = ExpectedRecord(name, LastIn.bindings[i][2])

\* lift1 has returned from a let that binds a function literal and, after
\* it, a plain value.
C4_Witness ==
    /\ Returned
    /\ LastIn.tag = "Let"
    /\ \E i \in LambdaBindings(LastIn) :
          /\ LastIn.bindings[i][1] \notin LaterFunctionNames(LastIn, i)
          /\ \E j \in (i + 1)..Len(LastIn.bindings) : j \notin LambdaBindings(LastIn)

\* e holds a function literal that is not the direct value of a let binding.
HasInlineLambda(e) ==
    \E q \in Paths(e) :
        /\ At(e, q).tag = "Lambda"
        /\ \/ q = <<>>
           \/ LET parent == At(e, SubSeq(q, 1, Len(q) - 1))
              IN  ~(parent.tag = "Let" /\ q[Len(q)] <= Len(parent.bindings))

\* C5: lift1 fails on a top-level expression exactly when that expression
\* holds a function literal that is not the direct value of a let binding.
C5_InlineLambdaFails ==
    /\ pc = "panicked" => HasInlineLambda(src[Len(out) + 1])
    /\ \A k \in 1..Len(out) : ~HasInlineLambda(src[k])

\* lift1 has failed inside a let.
C5_Witness ==
    /\ pc = "panicked"
    /\ src[Len(out) + 1].tag = "Let"

\* e holds no let and no string or symbol literal / no function literal.
Unbound(e) == \A q \in Paths(e) : At(e, q).tag \notin {"Let", "Str", "Symbol"}

NoLambda(e) == \A q \in Paths(e) : At(e, q).tag # "Lambda"

\* C9 as claimed: rename and lift1 return every expression that holds no
\* let and no string or symbol literal as it is, and lift1 leaves the three
\* tables as they are.
C9_UnchangedAsClaimed ==
    [][/\ (pc = "parsed" /\ pc' = "renamed") =>
             \A k \in 1..Len(prog) : Unbound(prog[k]) => renamed'[k] = prog[k]
       /\ (LiftTaken /\ Unbound(NextExpr)) =>
             /\ pc' # "panicked"
             /\ out' = Append(out, NextExpr)
             /\ s' = s]_vars

\* C9 as amended: rename returns such an expression as it is; lift1 returns
\* it as it is, leaving the three tables as they are, when it holds no
\* function literal either.
C9_Unchanged ==
    [][/\ (pc = "parsed" /\ pc' = "renamed") =>
             \A k \in 1..Len(prog) : Unbound(prog[k]) => renamed'[k] = prog[k]
       /\ (LiftTaken /\ Unbound(NextExpr) /\ NoLambda(NextExpr)) =>
             /\ pc' # "panicked"
             /\ out' = Append(out, NextExpr)
             /\ s' = s]_vars

\* lift1 has returned a list as it is, with tables that are not empty.
C9_Witness ==
    /\ Returned
    /\ LastIn.tag = "List"
    /\ Unbound(LastIn)
    /\ LastOut = LastIn
    /\ s # DefaultState
    /\ renamed # <<>>

====
